---- MODULE Spec2Model ----
(***************************************************************************)
(* Model of delete_empty_folders.py: the path filter (path_is_ignored),    *)
(* the emptiness test (dir_is_empty) and the scan/delete loop of main().   *)
(*                                                                         *)
(* A path is a string, modelled as a sequence of one-character strings,    *)
(* so that lower(), "in" on strings and os.path.join are computed the way  *)
(* Python computes them.  The file system is a set of directory paths, a   *)
(* set of regular-file paths and a set of directories whose listing fails  *)
(* (os.scandir raises OSError, which os.walk swallows: onerror is None).   *)
(* The tree holds no symbolic links.                                       *)
(***************************************************************************)
EXTENDS Integers, Sequences, FiniteSets, TLC

VARIABLES
    dirs,                        \* directories that exist
    files,                       \* regular files that exist
    unreadable,                  \* directories whose listing raises OSError
    scan_reversed,               \* order in which os.scandir returns entries
    paths_to_scan,               \* main(): paths_to_scan
    ignore_these_exact_paths,    \* main(): ignore_these_exact_paths
    any_part_of_path_to_ignore,  \* main(): any_part_of_path_to_ignore
    pc,                          \* "run", "done"; "filter", "filtered"
    root_idx,                    \* index of path_to_scan in paths_to_scan
    pending,                     \* dir_path values the walk has still to yield
    deleted_dirs_count,          \* main(): deleted_dirs_count
    deleted_dirs_list,           \* main(): deleted_dirs_list
    failures,                    \* number of send2trash calls that raised
    log,                         \* history: one record per evaluated dir_path
    dirs0,                       \* history: dirs when the run started
    files0,                      \* history: files when the run started
    path,                        \* argument of a direct path_is_ignored call
    ignored                      \* result of that call

vars == <<dirs, files, unreadable, scan_reversed, paths_to_scan,
          ignore_these_exact_paths, any_part_of_path_to_ignore, pc, root_idx,
          pending, deleted_dirs_count, deleted_dirs_list, failures, log,
          dirs0, files0, path, ignored>>

----------------------------------------------------------------------------
(* Bounds *)

MaxDepth == 3        \* depth of the deepest directory below "/"
MaxRoots == 2        \* entries of paths_to_scan
MaxFiles == 1        \* regular files in the tree
MaxUnreadable == 1   \* directories whose listing fails
MaxFailures == 1     \* send2trash calls that raise during one run
MaxPathLen == 3      \* characters of the path given to path_is_ignored
MaxRuleLen == 2      \* characters of one exclusion rule
MaxRules == 2        \* entries of the two exclusion lists together

----------------------------------------------------------------------------
(* Strings *)

Sep == "/"
SideName == "z"
FileName == "f"
Letters == <<"a", "b", "c", "d", "e", "g">>
NameOrder == Letters \o <<SideName>>

Range(s) == {s[k] : k \in DOMAIN s}

\* str.lower() on one character
lower_char(c) ==
    CASE c = "A" -> "a"
      [] c = "B" -> "b"
      [] c = "Z" -> "z"
      [] OTHER -> c

\* str.lower()
lower(s) == [k \in 1..Len(s) |-> lower_char(s[k])]

\* "needle in haystack" for two Python strings
str_in(needle, haystack) ==
    \E off \in 0..(Len(haystack) - Len(needle)) :
        \A k \in 1..Len(needle) : haystack[off + k] = needle[k]

\* "x in list" for a Python list
list_in(x, list) == \E k \in 1..Len(list) : list[k] = x

\* os.path.join(root, name) on POSIX
join(root, name) ==
    IF Len(name) > 0 /\ name[1] = Sep THEN name
    ELSE IF Len(root) = 0 \/ root[Len(root)] = Sep THEN root \o name
    ELSE root \o <<Sep>> \o name

\* q lies strictly below directory p
IsBelow(q, p) ==
    /\ Len(q) > Len(p)
    /\ SubSeq(q, 1, Len(p)) = p
    /\ \/ p[Len(p)] = Sep
       \/ q[Len(p) + 1] = Sep

InSubtree(q, p) == q = p \/ IsBelow(q, p)

----------------------------------------------------------------------------
(* path_is_ignored *)

\* mutant: the rules are lowered, the path is not
path_is_ignored_path_case(p, exact, parts) ==
    IF list_in(p, [k \in 1..Len(exact) |-> lower(exact[k])])
    THEN TRUE
    ELSE IF \E k \in 1..Len(parts) : str_in(lower(parts[k]), p)
    THEN TRUE
    ELSE FALSE

path_is_ignored(p, exact, parts) ==
    IF list_in(lower(p), [k \in 1..Len(exact) |-> lower(exact[k])])
    THEN TRUE
    ELSE IF \E k \in 1..Len(parts) : str_in(lower(parts[k]), lower(p))
    THEN TRUE
    ELSE FALSE

----------------------------------------------------------------------------
(* File system primitives *)

\* main(): dir_path of the current iteration
dir_path == Head(pending)

\* a directory of the subtree of p cannot be listed
Unverifiable(p) == \E u \in unreadable \cap dirs : InSubtree(u, p)

\* history record of one iteration
Entry(outcome) ==
    [path |-> dir_path, root |-> root_idx, outcome |-> outcome,
     unverifiable |-> Unverifiable(dir_path)]

\* os.path.isdir
isdir(p) == p \in dirs

SeqOfSet(order, S) == SelectSeq(order, LAMBDA n : n \in S)

Reverse(s) == [k \in 1..Len(s) |-> s[Len(s) + 1 - k]]

\* one os.scandir pass over top, split by os.walk into dirs and nondirs
scandir(top) ==
    LET order == IF scan_reversed THEN Reverse(NameOrder) ELSE NameOrder
    IN  [dirnames  |-> SeqOfSet(order, {n \in Range(NameOrder) : join(top, <<n>>) \in dirs}),
         filenames |-> IF join(top, <<FileName>>) \in files THEN <<FileName>> ELSE <<>>]

\* mutant: the walk yields a directory before its subdirectories whatever
\* topdown says
RECURSIVE os_walk_parent_first(_, _), walk_each_parent_first(_, _, _)
os_walk_parent_first(top, topdown) ==
    IF top \notin dirs \/ top \in unreadable THEN <<>>
    ELSE LET e == scandir(top)
             t == [dirpath |-> top, dirnames |-> e.dirnames, filenames |-> e.filenames]
         IN  <<t>> \o walk_each_parent_first(top, e.dirnames, topdown)

walk_each_parent_first(top, names, topdown) ==
    IF names = <<>> THEN <<>>
    ELSE os_walk_parent_first(join(top, <<Head(names)>>), topdown)
             \o walk_each_parent_first(top, Tail(names), topdown)

\* os.walk(top, topdown): the (dirpath, dirnames, filenames) tuples it yields.
\* A directory whose scandir raises yields nothing and is not descended into.
RECURSIVE os_walk(_, _), walk_each(_, _, _)
os_walk(top, topdown) ==
    IF top \notin dirs \/ top \in unreadable THEN <<>>
    ELSE LET e == scandir(top)
             t == [dirpath |-> top, dirnames |-> e.dirnames, filenames |-> e.filenames]
             sub == walk_each(top, e.dirnames, topdown)
         IN  IF topdown THEN <<t>> \o sub ELSE sub \o <<t>>

walk_each(top, names, topdown) ==
    IF names = <<>> THEN <<>>
    ELSE os_walk(join(top, <<Head(names)>>), topdown)
             \o walk_each(top, Tail(names), topdown)

\* mutant: only the files directly in the directory are looked at
dir_is_empty_first_level(p) ==
    IF ~ isdir(p) THEN FALSE
    ELSE scandir(p).filenames = <<>>

\* dir_is_empty
dir_is_empty(p) ==
    IF ~ isdir(p) THEN FALSE
    ELSE LET w == os_walk(p, TRUE)
         IN  \A k \in 1..Len(w) : w[k].filenames = <<>>

\* main(): the dir_path values of the two nested for loops over
\* os.walk(path_to_scan, topdown=False), in the order they are produced
RECURSIVE dir_paths(_)
dir_paths(w) ==
    IF w = <<>> THEN <<>>
    ELSE [k \in 1..Len(Head(w).dirnames) |->
              join(Head(w).dirpath, <<Head(w).dirnames[k]>>)]
         \o dir_paths(Tail(w))

\* mutant: the scan root itself is among the directories evaluated
scan_dir_paths_with_root(path_to_scan) ==
    dir_paths(os_walk(path_to_scan, FALSE))
        \o (IF isdir(path_to_scan) THEN <<path_to_scan>> ELSE <<>>)

scan_dir_paths(path_to_scan) == dir_paths(os_walk(path_to_scan, FALSE))

\* what a successful send2trash(p) leaves of a set of paths
trashed(S, p) == {q \in S : ~ InSubtree(q, p)}

----------------------------------------------------------------------------
(* main() *)

\* mutant: listing a scan root that is no directory raises out of main()
NextRoot_raises ==
    /\ pc = "run"
    /\ pending = <<>>
    /\ root_idx < Len(paths_to_scan)
    /\ root_idx' = root_idx + 1
    /\ pending' = scan_dir_paths(paths_to_scan[root_idx + 1])
    /\ pc' = IF isdir(paths_to_scan[root_idx + 1]) THEN "run" ELSE "done"
    /\ UNCHANGED <<dirs, files, unreadable, scan_reversed, paths_to_scan,
                   ignore_these_exact_paths, any_part_of_path_to_ignore,
                   deleted_dirs_count, deleted_dirs_list, failures, log,
                   dirs0, files0, path, ignored>>

\* for path_to_scan in paths_to_scan: start os.walk on the next root
NextRoot ==
    /\ pc = "run"
    /\ pending = <<>>
    /\ root_idx < Len(paths_to_scan)
    /\ root_idx' = root_idx + 1
    /\ pending' = scan_dir_paths(paths_to_scan[root_idx + 1])
    /\ UNCHANGED <<dirs, files, unreadable, scan_reversed, paths_to_scan,
                   ignore_these_exact_paths, any_part_of_path_to_ignore, pc,
                   deleted_dirs_count, deleted_dirs_list, failures, log,
                   dirs0, files0, path, ignored>>

\* if path_is_ignored(...): continue
SkipIgnored ==
    /\ pc = "run"
    /\ pending # <<>>
    /\ path_is_ignored(dir_path, ignore_these_exact_paths, any_part_of_path_to_ignore)
    /\ pending' = Tail(pending)
    /\ log' = Append(log, Entry("ignored"))
    /\ UNCHANGED <<dirs, files, unreadable, scan_reversed, paths_to_scan,
                   ignore_these_exact_paths, any_part_of_path_to_ignore, pc,
                   root_idx, deleted_dirs_count, deleted_dirs_list, failures,
                   dirs0, files0, path, ignored>>

\* if not dir_is_empty(dir_path): continue
SkipNotEmpty ==
    /\ pc = "run"
    /\ pending # <<>>
    /\ ~ path_is_ignored(dir_path, ignore_these_exact_paths, any_part_of_path_to_ignore)
    /\ ~ dir_is_empty(dir_path)
    /\ pending' = Tail(pending)
    /\ log' = Append(log, Entry("not_empty"))
    /\ UNCHANGED <<dirs, files, unreadable, scan_reversed, paths_to_scan,
                   ignore_these_exact_paths, any_part_of_path_to_ignore, pc,
                   root_idx, deleted_dirs_count, deleted_dirs_list, failures,
                   dirs0, files0, path, ignored>>

\* try: send2trash(dir_path) returns
DeleteOk ==
    /\ pc = "run"
    /\ pending # <<>>
    /\ ~ path_is_ignored(dir_path, ignore_these_exact_paths, any_part_of_path_to_ignore)
    /\ dir_is_empty(dir_path)
    /\ dirs' = trashed(dirs, dir_path)
    /\ files' = trashed(files, dir_path)
    /\ deleted_dirs_count' = deleted_dirs_count + 1
    /\ deleted_dirs_list' = Append(deleted_dirs_list, dir_path)
    /\ pending' = Tail(pending)
    /\ log' = Append(log, Entry("deleted"))
    /\ UNCHANGED <<unreadable, scan_reversed, paths_to_scan,
                   ignore_these_exact_paths, any_part_of_path_to_ignore, pc,
                   root_idx, failures, dirs0, files0, path, ignored>>

\* mutant: the count is incremented before send2trash is called
DeleteFail_counted ==
    /\ pc = "run"
    /\ pending # <<>>
    /\ ~ path_is_ignored(dir_path, ignore_these_exact_paths, any_part_of_path_to_ignore)
    /\ dir_is_empty(dir_path)
    /\ failures < MaxFailures
    /\ failures' = failures + 1
    /\ deleted_dirs_count' = deleted_dirs_count + 1
    /\ pending' = Tail(pending)
    /\ log' = Append(log, Entry("failed"))
    /\ UNCHANGED <<dirs, files, unreadable, scan_reversed, paths_to_scan,
                   ignore_these_exact_paths, any_part_of_path_to_ignore, pc,
                   root_idx, deleted_dirs_list, dirs0, files0, path, ignored>>

\* mutant: a failed send2trash is tried again on the same dir_path
DeleteFail_retried ==
    /\ pc = "run"
    /\ pending # <<>>
    /\ ~ path_is_ignored(dir_path, ignore_these_exact_paths, any_part_of_path_to_ignore)
    /\ dir_is_empty(dir_path)
    /\ failures < MaxFailures
    /\ failures' = failures + 1
    /\ log' = Append(log, Entry("failed"))
    /\ UNCHANGED <<dirs, files, unreadable, scan_reversed, paths_to_scan,
                   ignore_these_exact_paths, any_part_of_path_to_ignore, pc,
                   root_idx, pending, deleted_dirs_count, deleted_dirs_list,
                   dirs0, files0, path, ignored>>

\* except Exception: send2trash(dir_path) raises
DeleteFail ==
    /\ pc = "run"
    /\ pending # <<>>
    /\ ~ path_is_ignored(dir_path, ignore_these_exact_paths, any_part_of_path_to_ignore)
    /\ dir_is_empty(dir_path)
    /\ failures < MaxFailures
    /\ failures' = failures + 1
    /\ pending' = Tail(pending)
    /\ log' = Append(log, Entry("failed"))
    /\ UNCHANGED <<dirs, files, unreadable, scan_reversed, paths_to_scan,
                   ignore_these_exact_paths, any_part_of_path_to_ignore, pc,
                   root_idx, deleted_dirs_count, deleted_dirs_list,
                   dirs0, files0, path, ignored>>

\* the loop over paths_to_scan is exhausted: main() reports and returns
Finish ==
    /\ pc = "run"
    /\ pending = <<>>
    /\ root_idx = Len(paths_to_scan)
    /\ pc' = "done"
    /\ UNCHANGED <<dirs, files, unreadable, scan_reversed, paths_to_scan,
                   ignore_these_exact_paths, any_part_of_path_to_ignore,
                   root_idx, pending, deleted_dirs_count, deleted_dirs_list,
                   failures, log, dirs0, files0, path, ignored>>

----------------------------------------------------------------------------
(* Initial states *)

RECURSIVE Chain(_)
Chain(k) == IF k = 0 THEN <<Sep>> ELSE join(Chain(k - 1), <<Letters[k]>>)

Side(k) == join(Chain(k), <<SideName>>)

\* the chain /a/b/c... and one side branch /a/z
Universe == {Chain(k) : k \in 0..MaxDepth} \cup {Side(1)}

Trees == {D \in SUBSET Universe :
            /\ Chain(0) \in D
            /\ \A d \in D : \A u \in Universe : IsBelow(d, u) => u \in D}

SeqsUpTo(S, n) == UNION {[1..m -> S] : m \in 0..n}

RootChoices == {Chain(0), Chain(1), join(Chain(0), <<FileName>>)}

RuleChoices ==
    { [exact |-> <<>>, parts |-> <<>>],
      [exact |-> <<<<Sep, "A", Sep, "b">>>>, parts |-> <<<<"Z">>>>] }

Init ==
    /\ dirs \in Trees
    /\ files \in {F \in SUBSET {join(d, <<FileName>>) : d \in dirs} :
                     Cardinality(F) <= MaxFiles}
    /\ unreadable \in {U \in SUBSET dirs : Cardinality(U) <= MaxUnreadable}
    /\ scan_reversed \in BOOLEAN
    /\ paths_to_scan \in SeqsUpTo(RootChoices, MaxRoots)
    /\ \E r \in RuleChoices :
          /\ ignore_these_exact_paths = r.exact
          /\ any_part_of_path_to_ignore = r.parts
    /\ pc = "run"
    /\ root_idx = 0
    /\ pending = <<>>
    /\ deleted_dirs_count = 0
    /\ deleted_dirs_list = <<>>
    /\ failures = 0
    /\ log = <<>>
    /\ dirs0 = dirs
    /\ files0 = files
    /\ path = <<>>
    /\ ignored = FALSE

Next ==
    \/ NextRoot
    \/ SkipIgnored
    \/ SkipNotEmpty
    \/ DeleteOk
    \/ DeleteFail
    \/ Finish

Spec == Init /\ [][Next]_vars

----------------------------------------------------------------------------
(* Direct calls of path_is_ignored *)

PathChars == {Sep, "a", "A"}
RuleChars == {"a", "A"}

Strings(chars, n) == UNION {[1..m -> chars] : m \in 0..n}

InitFilter ==
    /\ path \in Strings(PathChars, MaxPathLen)
    /\ ignore_these_exact_paths \in SeqsUpTo(Strings(RuleChars, MaxRuleLen), MaxRules)
    /\ any_part_of_path_to_ignore \in
          SeqsUpTo(Strings(RuleChars, MaxRuleLen), MaxRules - Len(ignore_these_exact_paths))
    /\ pc = "filter"
    /\ ignored = FALSE
    /\ dirs = {}
    /\ files = {}
    /\ unreadable = {}
    /\ scan_reversed = FALSE
    /\ paths_to_scan = <<>>
    /\ root_idx = 0
    /\ pending = <<>>
    /\ deleted_dirs_count = 0
    /\ deleted_dirs_list = <<>>
    /\ failures = 0
    /\ log = <<>>
    /\ dirs0 = {}
    /\ files0 = {}

ApplyFilter ==
    /\ pc = "filter"
    /\ ignored' = path_is_ignored(path, ignore_these_exact_paths, any_part_of_path_to_ignore)
    /\ pc' = "filtered"
    /\ UNCHANGED <<dirs, files, unreadable, scan_reversed, paths_to_scan,
                   ignore_these_exact_paths, any_part_of_path_to_ignore,
                   root_idx, pending, deleted_dirs_count, deleted_dirs_list,
                   failures, log, dirs0, files0, path>>

NextFilter == ApplyFilter

SpecFilter == InitFilter /\ [][NextFilter]_vars

----------------------------------------------------------------------------
(* Vocabulary of the properties *)

Done == pc = "done"

NoRules == ignore_these_exact_paths = <<>> /\ any_part_of_path_to_ignore = <<>>

Matched(d) == path_is_ignored(d, ignore_these_exact_paths, any_part_of_path_to_ignore)

\* a regular file lay in the subtree of d when the run started
HadFile(d) == \E f \in files0 : IsBelow(f, d)

\* a regular file lies in the subtree of d now
HasFile(d) == \E f \in files : IsBelow(f, d)

BelowARoot(d) == \E k \in 1..Len(paths_to_scan) : IsBelow(d, paths_to_scan[k])

\* a directory at or below a scan root cannot be listed
ReadError ==
    \E u \in unreadable \cap dirs0 :
        \E k \in 1..Len(paths_to_scan) : InSubtree(u, paths_to_scan[k])

IsCall(e) == e.outcome \in {"deleted", "failed"}

Calls == {k \in 1..Len(log) : IsCall(log[k])}

\* the paths of the successful send2trash calls, in call order
DeletedOf(l) ==
    LET ok == SelectSeq(l, LAMBDA e : e.outcome = "deleted")
    IN  [k \in 1..Len(ok) |-> ok[k].path]

IsPrefix(s, t) == Len(s) <= Len(t) /\ SubSeq(t, 1, Len(s)) = s

\* the tree /a/b/c, /a/z/f (the spec's /data/x/y, /data/z/file.txt)
ExampleTree == {Chain(0), Chain(1), Chain(2), Chain(3), Side(1)}
ExampleFiles == {join(Side(1), <<FileName>>)}
ExampleRun ==
    /\ dirs0 = ExampleTree
    /\ files0 = ExampleFiles
    /\ paths_to_scan = <<Chain(1)>>
    /\ unreadable = {}
    /\ NoRules

----------------------------------------------------------------------------
(* C1 *)

\* C1: when the run ends, every directory that had a regular file somewhere
\* in its subtree at the start still exists, and the set of regular files
\* is the one the run started with.
C1_NoFileRemoved ==
    Done => /\ \A d \in dirs0 : HadFile(d) => d \in dirs
            /\ files = files0

----------------------------------------------------------------------------
(* C2 *)

\* C2: when the run ends, every directory whose path the Path Filter matches
\* still exists; for the chain /a/b/c below the scan root / with /a/b in the
\* exact paths, /a/b and /a still exist.  (Stated for the runs in which
\* every directory can be listed and every delete call succeeds.)
C2_MatchedKept ==
    (Done /\ unreadable = {} /\ failures = 0) =>
            /\ \A d \in dirs0 : Matched(d) => d \in dirs
            /\ (/\ dirs0 = {Chain(0), Chain(1), Chain(2), Chain(3)}
                /\ files0 = {}
                /\ paths_to_scan = <<Chain(0)>>
                /\ lower(Chain(2)) \in {lower(e) : e \in Range(ignore_these_exact_paths)})
               => (Chain(2) \in dirs /\ Chain(1) \in dirs)

----------------------------------------------------------------------------
(* C3 *)

CascadeComplete ==
    /\ \A d \in dirs : BelowARoot(d) => HasFile(d)
    /\ Range(deleted_dirs_list) = {d \in dirs0 : BelowARoot(d) /\ ~ HadFile(d)}
    /\ deleted_dirs_count = Cardinality(Range(deleted_dirs_list))
    /\ ExampleRun =>
          /\ deleted_dirs_list = <<Chain(3), Chain(2)>>
          /\ deleted_dirs_count = 2
          /\ Side(1) \in dirs
          /\ Chain(1) \in dirs

\* C3 (as stated): with no exclusion rules and no failing delete call, when
\* the run ends no directory strictly below a scan root is file-free, the
\* DeletionResult holds exactly the directories below a scan root that were
\* file-free, and the example run deletes /a/b/c then /a/b, count 2.
C3_Original == (Done /\ NoRules /\ failures = 0) => CascadeComplete

\* C3 (amended): the same, for runs in which every directory at or below a
\* scan root can be listed.
C3_Cascade == (Done /\ NoRules /\ failures = 0 /\ ~ ReadError) => CascadeComplete

C3_Witness ==
    /\ Done /\ ExampleRun /\ failures = 0
    /\ deleted_dirs_list = <<Chain(3), Chain(2)>>

----------------------------------------------------------------------------
(* C4 *)

----------------------------------------------------------------------------
(* C5 *)

SameIgnoringCase(c, d) ==
    c = d \/ {c, d} \in {{"a", "A"}, {"b", "B"}, {"z", "Z"}}

EqualIgnoringCase(s, t) ==
    Len(s) = Len(t) /\ \A k \in 1..Len(s) : SameIgnoringCase(s[k], t[k])

ContainsIgnoringCase(s, t) ==
    \E from \in 1..(Len(s) + 1) : \E to \in (from - 1)..Len(s) :
        EqualIgnoringCase(SubSeq(s, from, to), t)

\* C5: path_is_ignored returns true exactly when the path equals an entry of
\* the exact paths or contains an entry of the path fragments, ignoring
\* case; in particular false when both sequences are empty.
C5_Filter ==
    pc = "filtered" =>
        /\ ignored =
              \/ \E k \in 1..Len(ignore_these_exact_paths) :
                    EqualIgnoringCase(path, ignore_these_exact_paths[k])
              \/ \E k \in 1..Len(any_part_of_path_to_ignore) :
                    ContainsIgnoringCase(path, any_part_of_path_to_ignore[k])
        /\ NoRules => ~ ignored

C5_Witness ==
    /\ pc = "filtered"
    /\ ignored
    /\ path = <<Sep, "A", "a">>
    /\ ignore_these_exact_paths = <<<<"A">>>>
    /\ any_part_of_path_to_ignore = <<<<"a", "A">>>>

----------------------------------------------------------------------------
(* C6 *)

FailedStep == Len(log') = Len(log) + 1 /\ log'[Len(log')].outcome = "failed"

\* C6: a step in which send2trash raises leaves the deleted count, the
\* deleted paths and the file system as they were and goes on with the next
\* dir_path of the same walk; at every point the deleted paths are the paths
\* of the successful calls, the sequence only grows at its end, and the
\* count is its length.
C6_FailureIsolated ==
    /\ [](/\ deleted_dirs_count = Len(deleted_dirs_list)
          /\ deleted_dirs_list = DeletedOf(log))
    /\ [][/\ IsPrefix(deleted_dirs_list, deleted_dirs_list')
          /\ FailedStep =>
                /\ deleted_dirs_count' = deleted_dirs_count
                /\ deleted_dirs_list' = deleted_dirs_list
                /\ dirs' = dirs /\ files' = files
                /\ pc' = "run"
                /\ root_idx' = root_idx
                /\ paths_to_scan' = paths_to_scan
                /\ pending' = Tail(pending)]_vars

C6_Witness ==
    /\ Done
    /\ \E k, l \in 1..Len(log) :
          /\ k < l
          /\ log[k].outcome = "failed"
          /\ log[l].outcome = "deleted"
          /\ log[l].root > log[k].root
    /\ \E k, l \in 1..Len(log) :
          /\ k < l
          /\ log[k].outcome = "failed"
          /\ log[l].outcome = "deleted"
          /\ log[l].root = log[k].root

----------------------------------------------------------------------------
(* C7 *)

\* C7: no send2trash call is issued for a directory whose subtree holds a
\* directory that cannot be listed.
C7_UnverifiableKept ==
    \A k \in 1..Len(log) : log[k].unverifiable => ~ IsCall(log[k])

----------------------------------------------------------------------------
(* C8 *)

WalksBadRoot ==
    /\ pc = "run"
    /\ pending = <<>>
    /\ root_idx < Len(paths_to_scan)
    /\ root_idx' = root_idx + 1
    /\ paths_to_scan[root_idx + 1] \notin dirs

\* C8: the walk of a scan root that does not exist or is not a directory
\* evaluates nothing and changes nothing but the position in the root list,
\* so the run goes on from the state it would be in without that root; no
\* directory is ever evaluated on behalf of such a root.
C8_BadRootSkipped ==
    /\ [](\A k \in 1..Len(log) : paths_to_scan[log[k].root] \in dirs0)
    /\ [][WalksBadRoot =>
             /\ pc' = "run"
             /\ pending' = <<>>
             /\ UNCHANGED <<dirs, files, deleted_dirs_count, deleted_dirs_list,
                            log, failures, paths_to_scan>>]_vars

C8_Witness ==
    /\ Done
    /\ Len(paths_to_scan) = 2
    /\ paths_to_scan[1] \notin dirs0
    /\ \E k \in 1..Len(log) : log[k].root = 2 /\ log[k].outcome = "deleted"

----------------------------------------------------------------------------
(* C9 *)

\* C9 (as stated): no path is passed to send2trash more than once in a run,
\* and every path of the DeletionResult corresponds to exactly one call.
C9_Original ==
    /\ \A k, l \in Calls : k # l => log[k].path # log[l].path
    /\ \A j \in 1..Len(deleted_dirs_list) :
          Cardinality({k \in Calls : log[k].path = deleted_dirs_list[j]}) = 1

\* C9 (amended): no path is passed to send2trash twice within the walk of
\* one scan root, nor again after a call for it succeeded; every path of the
\* DeletionResult appears in it once and corresponds to exactly one
\* successful call.
C9_OncePerWalk ==
    /\ \A k, l \in Calls :
          (k < l /\ log[k].path = log[l].path) =>
              /\ log[k].root # log[l].root
              /\ log[k].outcome = "failed"
    /\ \A j \in 1..Len(deleted_dirs_list) :
          /\ Cardinality({k \in Calls : /\ log[k].path = deleted_dirs_list[j]
                                        /\ log[k].outcome = "deleted"}) = 1
          /\ \A i \in 1..Len(deleted_dirs_list) :
                deleted_dirs_list[i] = deleted_dirs_list[j] => i = j

C9_Witness ==
    \E k, l \in Calls :
        /\ k < l
        /\ log[k].path = log[l].path
        /\ log[k].outcome = "failed"
        /\ log[l].outcome = "deleted"

----------------------------------------------------------------------------
(* C10 *)

\* C10: the walk of a scan root evaluates only directories strictly below
\* that root, and a scan root that existed at the start and lies strictly
\* inside no other scan root exists at every point of the run and is never
\* in the DeletionResult.
C10_RootKept ==
    /\ \A k \in 1..Len(log) : IsBelow(log[k].path, paths_to_scan[log[k].root])
    /\ \A k \in 1..Len(paths_to_scan) :
          (/\ paths_to_scan[k] \in dirs0
           /\ \A j \in 1..Len(paths_to_scan) :
                 ~ IsBelow(paths_to_scan[k], paths_to_scan[j]))
          => /\ paths_to_scan[k] \in dirs
             /\ paths_to_scan[k] \notin Range(deleted_dirs_list)

C10_Witness ==
    /\ Done
    /\ paths_to_scan = <<Chain(1)>>
    /\ Chain(2) \in dirs0
    /\ Chain(1) \in dirs
    /\ \A d \in dirs : ~ IsBelow(d, Chain(1))
    /\ deleted_dirs_list # <<>>

====
